---- MODULE Spec2Model ----
(***************************************************************************)
(* HTTP host bench (src/main.py): HostTestReport aggregation, the          *)
(* HostHttpBench request runner and the HttpHostTest orchestrators         *)
(* test_hosts (sequential) and test_hosts_parallel (thread pool).          *)
(***************************************************************************)
EXTENDS Integers, Sequences, FiniteSets, Bags, TLC

\* ------------------------------------------------------------------
\* Bounds of the model
\* ------------------------------------------------------------------
\* Width of the significand of a float.  CPython floats are IEEE-754 binary64
\* (53 bits); the model keeps the same arithmetic (binary significand,
\* round-to-nearest, ties-to-even, gradual underflow) at a reduced width.
SigBits == 3

\* Longest response list handed to HostTestReport in ReportSpec.
MaxResponses == 3

\* Longest host list, largest count and largest thread_count of a call.
MaxHosts == 3
MaxCount == 2
MaxThreads == 2

\* Most requests one call issues: Len(hosts) * count.
MaxCalls == 4

\* ------------------------------------------------------------------
\* Floats: a non-negative float is the natural number k of smallest quanta
\* it is worth; k is a float iff it fits SigBits significant bits.
\* ------------------------------------------------------------------
RECURSIVE Pow2(_)
Pow2(n) == IF n = 0 THEN 1 ELSE 2 * Pow2(n - 1)

\* float('inf'), the initial value of HostTestReport.min
Inf == -1

\* The quantum (unit in the last place) of the binade that holds num/den.
RECURSIVE Quantum(_, _, _)
Quantum(num, den, q) ==
    IF num < Pow2(SigBits) * q * den THEN q ELSE Quantum(num, den, 2 * q)

\* a/b rounded to the nearest integer, ties to even.
RoundHalfEven(a, b) ==
    LET f == a \div b
        r == a % b
    IN  IF 2 * r < b THEN f
        ELSE IF 2 * r > b THEN f + 1
        ELSE IF f % 2 = 0 THEN f ELSE f + 1

\* The float nearest to the rational num/den.
FRound(num, den) ==
    LET q == Quantum(num, den, 1)
    IN  q * RoundHalfEven(num, den * q)

IsFloat(k) == k \in Nat /\ FRound(k, 1) = k

\* Float addition and float division by a positive integer.
FAdd(a, b) == FRound(a + b, 1)
FDiv(a, n) == FRound(a, n)

\* a < b on floats, b possibly float('inf').
FLess(a, b) == IF b = Inf THEN a # Inf ELSE a # Inf /\ a < b

\* sum(times_list): left-to-right float additions starting from 0.
RECURSIVE FSum(_)
FSum(s) == IF s = << >> THEN 0 ELSE FAdd(FSum(SubSeq(s, 1, Len(s) - 1)), s[Len(s)])

\* ------------------------------------------------------------------
\* Responses: what HostHttpBench.get_response returns.  None stands for a
\* transport failure; a response carries its status code and
\* elapsed.total_seconds() * 1000.
\* ------------------------------------------------------------------
None == [kind |-> "None"]

Response(code, ms) == [kind |-> "Response", status_code |-> code, elapsed_ms |-> ms]

StatusCodes == {199, 200, 201, 399, 400, 599, 600}

ElapsedSamples == {e \in {0, 3, 6} : IsFloat(e)}

Responses == {None} \cup {Response(c, e) : c \in StatusCodes, e \in ElapsedSamples}

\* All sequences over S of length at most n.
RECURSIVE SeqsUpTo(_, _)
SeqsUpTo(S, n) ==
    IF n = 0 THEN {<< >>}
    ELSE LET shorter == SeqsUpTo(S, n - 1)
         IN  shorter \cup {Append(s, x) : s \in {t \in shorter : Len(t) = n - 1}, x \in S}

\* ------------------------------------------------------------------
\* HostTestReport.__init__
\* ------------------------------------------------------------------
\* The fields before the loop over response_list.
ReportStart ==
    [success |-> 0, failed |-> 0, errors |-> 0, min |-> Inf, max |-> 0,
     times_list |-> << >>]

\* Mutant of ReportStep: a status outside 200 and [400, 600) is not counted.
ReportStepDropsOther(acc, response) ==
    IF response = None
    THEN [acc EXCEPT !.errors = @ + 1]
    ELSE LET elapsed_ms == response.elapsed_ms
         IN  IF response.status_code = 200
             THEN [acc EXCEPT !.success = @ + 1,
                              !.times_list = Append(@, elapsed_ms),
                              !.min = IF FLess(elapsed_ms, @) THEN elapsed_ms ELSE @,
                              !.max = IF FLess(@, elapsed_ms) THEN elapsed_ms ELSE @]
             ELSE IF 400 <= response.status_code /\ response.status_code < 600
             THEN [acc EXCEPT !.failed = @ + 1]
             ELSE acc

\* Mutant of ReportStep: the failed range is 400 <= status_code <= 600.
ReportStepFailedUpTo600(acc, response) ==
    IF response = None
    THEN [acc EXCEPT !.errors = @ + 1]
    ELSE LET elapsed_ms == response.elapsed_ms
         IN  IF response.status_code = 200
             THEN [acc EXCEPT !.success = @ + 1,
                              !.times_list = Append(@, elapsed_ms),
                              !.min = IF FLess(elapsed_ms, @) THEN elapsed_ms ELSE @,
                              !.max = IF FLess(@, elapsed_ms) THEN elapsed_ms ELSE @]
             ELSE IF 400 <= response.status_code /\ response.status_code <= 600
             THEN [acc EXCEPT !.failed = @ + 1]
             ELSE [acc EXCEPT !.errors = @ + 1]

\* Mutant of ReportStep: max is tracked for every response, not only for the
\* status-200 ones.
ReportStepMaxOfAll(acc, response) ==
    IF response = None
    THEN [acc EXCEPT !.errors = @ + 1]
    ELSE LET elapsed_ms == response.elapsed_ms
             seen == [acc EXCEPT !.max = IF FLess(@, elapsed_ms) THEN elapsed_ms ELSE @]
         IN  IF response.status_code = 200
             THEN [seen EXCEPT !.success = @ + 1,
                               !.times_list = Append(@, elapsed_ms),
                               !.min = IF FLess(elapsed_ms, @) THEN elapsed_ms ELSE @]
             ELSE IF 400 <= response.status_code /\ response.status_code < 600
             THEN [seen EXCEPT !.failed = @ + 1]
             ELSE [seen EXCEPT !.errors = @ + 1]

\* One iteration of the loop over response_list.
ReportStep(acc, response) ==
    IF response = None
    THEN [acc EXCEPT !.errors = @ + 1]
    ELSE LET elapsed_ms == response.elapsed_ms
         IN  IF response.status_code = 200
             THEN [acc EXCEPT !.success = @ + 1,
                              !.times_list = Append(@, elapsed_ms),
                              !.min = IF FLess(elapsed_ms, @) THEN elapsed_ms ELSE @,
                              !.max = IF FLess(@, elapsed_ms) THEN elapsed_ms ELSE @]
             ELSE IF 400 <= response.status_code /\ response.status_code < 600
             THEN [acc EXCEPT !.failed = @ + 1]
             ELSE [acc EXCEPT !.errors = @ + 1]

RECURSIVE ReportLoop(_)
ReportLoop(response_list) ==
    IF response_list = << >> THEN ReportStart
    ELSE ReportStep(ReportLoop(SubSeq(response_list, 1, Len(response_list) - 1)),
                    response_list[Len(response_list)])

\* Mutant of ReportFinish: without samples min is left as the loop left it.
ReportFinishKeepsMin(host, acc) ==
    IF Len(acc.times_list) > 0
    THEN [host |-> host, success |-> acc.success, failed |-> acc.failed,
          errors |-> acc.errors,
          min |-> IF acc.min = Inf THEN 0 ELSE acc.min,
          max |-> acc.max,
          avg |-> FDiv(FSum(acc.times_list), Len(acc.times_list))]
    ELSE [host |-> host, success |-> acc.success, failed |-> acc.failed,
          errors |-> acc.errors, min |-> acc.min, max |-> acc.max, avg |-> 0]

\* The statistics computed after the loop.
ReportFinish(host, acc) ==
    IF Len(acc.times_list) > 0
    THEN [host |-> host, success |-> acc.success, failed |-> acc.failed,
          errors |-> acc.errors,
          min |-> IF acc.min = Inf THEN 0 ELSE acc.min,
          max |-> acc.max,
          avg |-> FDiv(FSum(acc.times_list), Len(acc.times_list))]
    ELSE [host |-> host, success |-> acc.success, failed |-> acc.failed,
          errors |-> acc.errors, min |-> 0, max |-> acc.max, avg |-> 0]

HostTestReport(host, response_list) == ReportFinish(host, ReportLoop(response_list))

\* ------------------------------------------------------------------
\* HttpHostTest.urls and validate_url.  A string is the sequence of its
\* characters.
\* ------------------------------------------------------------------
Lower == {"a", "b", "c", "d", "e", "f", "g", "h", "i", "j", "k", "l", "m",
          "n", "o", "p", "q", "r", "s", "t", "u", "v", "w", "x", "y", "z"}
Upper == {"A", "B", "C", "D", "E", "F", "G", "H", "I", "J", "K", "L", "M",
          "N", "O", "P", "Q", "R", "S", "T", "U", "V", "W", "X", "Y", "Z"}
Letter == Lower \cup Upper
Digit == {"0", "1", "2", "3", "4", "5", "6", "7", "8", "9"}

\* [a-zA-Z0-9.-]
HostChar == Letter \cup Digit \cup {".", "-"}

\* \s
Whitespace == {" ", "\t", "\n", "\r", "\f"}

StartsWith(url, prefix) ==
    Len(url) >= Len(prefix) /\ SubSeq(url, 1, Len(prefix)) = prefix

\* The lengths of the prefixes of url that match ^https?://
SchemeEnds(url) ==
    {Len(p) : p \in {q \in {<<"h", "t", "t", "p", ":", "/", "/">>,
                            <<"h", "t", "t", "p", "s", ":", "/", "/">>} :
                     StartsWith(url, q)}}

\* The positions at which $ matches: the end of the string and, when the
\* string ends with a newline, just before that newline.
DollarEnds(url) ==
    {Len(url)} \cup (IF Len(url) > 0 /\ url[Len(url)] = "\n" THEN {Len(url) - 1} ELSE {})

\* urls.match(url): scheme, ([a-zA-Z0-9.-]+) up to position h,
\* (\.[a-zA-Z]{2,}) up to position t, (/[^\s]*)? up to the end.
UrlsMatch(url) ==
    \E s \in SchemeEnds(url), e \in DollarEnds(url) :
      \E h \in s + 1 .. e, t \in s + 1 .. e :
        /\ \A k \in s + 1 .. h : url[k] \in HostChar
        /\ h + 3 <= t
        /\ url[h + 1] = "."
        /\ \A k \in h + 2 .. t : url[k] \in Letter
        /\ \/ t = e
           \/ /\ t < e
              /\ url[t + 1] = "/"
              /\ \A k \in t + 2 .. e : url[k] \notin Whitespace

validate_url(url) == UrlsMatch(url)

\* ------------------------------------------------------------------
\* Inputs of the orchestrator calls
\* ------------------------------------------------------------------
\* "http://a.io", "https://b.io/x", "bad url"
HostA == <<"h", "t", "t", "p", ":", "/", "/", "a", ".", "i", "o">>
HostB == <<"h", "t", "t", "p", "s", ":", "/", "/", "b", ".", "i", "o", "/", "x">>
BadUrl == <<"b", "a", "d", " ", "u", "r", "l">>

HostPool == {HostA, HostB, BadUrl}

\* What one requests.get of an orchestrated run can come back with.
TransportOutcomes == {None, Response(200, 3)}

\* ------------------------------------------------------------------
\* State
\* ------------------------------------------------------------------
VARIABLES
    response_list,   \* ReportSpec: the argument of HostTestReport
    report,          \* ReportSpec: the constructed HostTestReport, or NoReport
    args,            \* MainSpec: the parsed command line, or NoArgs
    hosts,           \* argument hosts of test_hosts and test_hosts_parallel
    count,           \* argument count
    thread_count,    \* argument thread_count of test_hosts_parallel
    call,            \* the call in progress
    main_pc,         \* where the calling thread is in that call
    next_i,          \* index of the next host the calling thread iterates to
    state,           \* per call and host index: how far test_host(host) has come
    responses,       \* per host index: the list get_response_list is building
    requested,       \* per call and host index: the urls passed to requests.get
    in_flight,       \* requests.get calls entered and not yet returned
    reports,         \* per call: the local list reports
    printed,         \* per call: the error lines printed so far
    queue,           \* the executor's work queue (host indices)
    future,          \* per host index: the future returned by submit
    collected,       \* the futures as_completed has already yielded
    oracle,          \* per host index: what the transport answered so far
    returned         \* what a direct call returned or raised; the exit code of main

inputs == <<hosts, count, thread_count>>
reportVars == <<response_list, report>>
vars == <<response_list, report, args, hosts, count, thread_count, call, main_pc,
          next_i, state, responses, requested, in_flight, reports, printed,
          queue, future, collected, oracle, returned>>

NoReport == [host |-> "none"]
NoArgs == [source |-> "none"]
NotReturned == [kind |-> "none"]

Modes == {"test_hosts", "test_hosts_parallel"}
Calls == Modes \cup {"get_response_list"}

NoFuture == [st |-> "none", result |-> NoReport, exception |-> "none"]

HostIndices == 1 .. Len(hosts)
Terminal == {"Aggregated", "Rejected", "Failed"}

\* Mutant of max_workers: the pool has one thread more than asked for.
max_workers_plus_one == thread_count + 1

\* ThreadPoolExecutor(max_workers=thread_count)
max_workers == thread_count

\* The hosts a thread is executing test_host for.
Running == {i \in HostIndices : state[call][i] \in {"Validating", "Probing"}}

\* The thread that probes host index i is inside requests.get.
InRequest(i) == Len(requested[call][i]) > Len(responses[i])

\* ------------------------------------------------------------------
\* ReportSpec: HostTestReport built from any bounded response list
\* ------------------------------------------------------------------
ReportHost == "host"

OrchestratorIdle ==
    /\ args = NoArgs
    /\ hosts = << >> /\ count = 1 /\ thread_count = 1
    /\ call = "none" /\ main_pc = "none" /\ next_i = 1
    /\ state = [m \in Calls |-> << >>]
    /\ responses = << >> /\ in_flight = 0
    /\ requested = [m \in Calls |-> << >>]
    /\ reports = [m \in Modes |-> << >>]
    /\ printed = [m \in Modes |-> << >>]
    /\ queue = << >> /\ future = << >> /\ collected = {}
    /\ oracle = << >>
    /\ returned = NotReturned

ReportInit ==
    /\ response_list \in SeqsUpTo(Responses, MaxResponses)
    /\ report = NoReport
    /\ OrchestratorIdle

Construct ==
    /\ call = "none"
    /\ report = NoReport
    /\ report' = HostTestReport(ReportHost, response_list)
    /\ UNCHANGED <<response_list, args, inputs, call, main_pc, next_i, state,
                   responses, requested, in_flight, reports, printed, queue,
                   future, collected, oracle, returned>>

ReportNext == Construct

ReportSpec == ReportInit /\ [][ReportNext]_vars

\* ------------------------------------------------------------------
\* Spec: test_hosts, then test_hosts_parallel, called with the same
\* arguments against a transport that answers attempt k of a host the same
\* way in both calls.
\* ------------------------------------------------------------------
\* A value v for every host of the list hs, and that for every call.
PerHost(hs, v) == [i \in 1 .. Len(hs) |-> v]
PerCall(hs, v) == [m \in Calls |-> PerHost(hs, v)]

\* The per-host bookkeeping of a call on the host list hs, before any host
\* was touched.
Fresh(hs) ==
    /\ state = PerCall(hs, "Pending")
    /\ responses = PerHost(hs, << >>)
    /\ requested = PerCall(hs, << >>)
    /\ future = PerHost(hs, NoFuture)
    /\ oracle = PerHost(hs, << >>)

Init ==
    /\ response_list = << >>
    /\ report = NoReport
    /\ args = NoArgs
    /\ hosts \in SeqsUpTo(HostPool, MaxHosts)
    /\ count \in 0 .. MaxCount
    /\ Len(hosts) * count <= MaxCalls
    /\ thread_count \in 1 .. MaxThreads
    /\ call = "test_hosts"
    /\ main_pc = "loop"
    /\ next_i = 1
    /\ Fresh(hosts)
    /\ in_flight = 0
    /\ reports = [m \in Modes |-> << >>]
    /\ printed = [m \in Modes |-> << >>]
    /\ queue = << >>
    /\ collected = {}
    /\ returned = NotReturned

\* -- test_host(hosts[i]) (lines 121-126) ---------------------------------

\* Mutant of Raise: an exception in a worker thread is lost, the future is
\* never finished.
RaiseLostInWorker(i, st, err) ==
    /\ state' = [state EXCEPT ![call][i] = st]
    /\ IF call = "test_hosts"
       THEN /\ printed' = [printed EXCEPT ![call] =
                              Append(@, [host |-> hosts[i], error |-> err])]
            /\ main_pc' = "caught"
            /\ UNCHANGED <<future, returned>>
       ELSE IF call = "test_hosts_parallel"
       THEN UNCHANGED <<future, printed, main_pc, returned>>
       ELSE /\ returned' = [kind |-> "raised", value |-> err]
            /\ main_pc' = "done"
            /\ UNCHANGED <<printed, future>>

\* test_host or get_response_list raises.  In test_hosts the except clause
\* around the loop prints the error and the loop is over; in a worker thread
\* the executor stores the exception in the future; a direct caller of
\* get_response_list gets the exception.
Raise(i, st, err) ==
    /\ state' = [state EXCEPT ![call][i] = st]
    /\ IF call = "test_hosts"
       THEN /\ printed' = [printed EXCEPT ![call] =
                              Append(@, [host |-> hosts[i], error |-> err])]
            /\ main_pc' = "caught"
            /\ UNCHANGED <<future, returned>>
       ELSE IF call = "test_hosts_parallel"
       THEN /\ future' = [future EXCEPT ![i] =
                              [st |-> "finished", result |-> NoReport, exception |-> err]]
            /\ UNCHANGED <<printed, main_pc, returned>>
       ELSE /\ returned' = [kind |-> "raised", value |-> err]
            /\ main_pc' = "done"
            /\ UNCHANGED <<printed, future>>

\* Mutant of ReturnReport: test_hosts puts the report at the front of reports.
ReturnReportInFront(i, r) ==
    /\ state' = [state EXCEPT ![call][i] = "Aggregated"]
    /\ IF call = "test_hosts"
       THEN /\ reports' = [reports EXCEPT ![call] = <<r>> \o @]
            /\ main_pc' = "loop"
            /\ UNCHANGED future
       ELSE /\ future' = [future EXCEPT ![i] =
                              [st |-> "finished", result |-> r, exception |-> "none"]]
            /\ UNCHANGED <<reports, main_pc>>

\* test_host returns a report.  test_hosts appends it and goes on with the
\* loop; in a worker thread the executor stores it in the future.
ReturnReport(i, r) ==
    /\ state' = [state EXCEPT ![call][i] = "Aggregated"]
    /\ IF call = "test_hosts"
       THEN /\ reports' = [reports EXCEPT ![call] = Append(@, r)]
            /\ main_pc' = "loop"
            /\ UNCHANGED future
       ELSE /\ future' = [future EXCEPT ![i] =
                              [st |-> "finished", result |-> r, exception |-> "none"]]
            /\ UNCHANGED <<reports, main_pc>>

\* get_response_list returns the list l: test_host builds the report from
\* it; a direct caller gets the list.
ReturnList(i, l) ==
    IF call = "get_response_list"
    THEN /\ returned' = [kind |-> "returned", value |-> l]
         /\ state' = [state EXCEPT ![call][i] = "Returned"]
         /\ main_pc' = "done"
         /\ UNCHANGED <<reports, future>>
    ELSE /\ ReturnReport(i, HostTestReport(hosts[i], l))
         /\ UNCHANGED returned

\* Mutant of CountIsInvalid: only a negative count is refused.
CountIsNegative(c) == c < 0

\* if count <= 0 (line 62)
CountIsInvalid(c) == c <= 0

\* The first get_response of the list comprehension enters requests.get.
FirstRequest(i) ==
    /\ requested' = [requested EXCEPT ![call][i] = Append(@, hosts[i])]
    /\ in_flight' = in_flight + 1

\* Mutant of Validate: get_response_list is called whatever validate_url says.
ValidateIgnored(i) ==
    /\ call \in Modes
    /\ state[call][i] = "Validating"
    /\ state' = [state EXCEPT ![call][i] = "Probing"]
    /\ IF CountIsInvalid(count) \/ count <= 0
       THEN UNCHANGED <<requested, in_flight>>
       ELSE FirstRequest(i)
    /\ UNCHANGED <<reportVars, args, inputs, call, main_pc, next_i, responses,
                   reports, printed, queue, future, collected, oracle, returned>>

\* validate_url: for an invalid host test_host raises; with a valid one it
\* calls get_response_list, where a count that passes the check takes the
\* thread into the requests.get of the first get_response.
Validate(i) ==
    /\ call \in Modes
    /\ state[call][i] = "Validating"
    /\ IF validate_url(hosts[i])
       THEN /\ state' = [state EXCEPT ![call][i] = "Probing"]
            /\ IF CountIsInvalid(count) \/ count <= 0
               THEN UNCHANGED <<requested, in_flight>>
               ELSE FirstRequest(i)
            /\ UNCHANGED <<printed, main_pc, future, returned>>
       ELSE /\ Raise(i, "Rejected", "invalid url")
            /\ UNCHANGED <<requested, in_flight>>
    /\ UNCHANGED <<reportVars, args, inputs, call, next_i, responses, reports,
                   queue, collected, oracle>>

\* get_response_list, called and not yet past its count check, acts: it
\* raises, or the first get_response enters requests.get (an empty range
\* returns the empty list at once).
GetResponseListStart(i) ==
    /\ call \in Calls
    /\ state[call][i] = "Probing"
    /\ requested[call][i] = << >>
    /\ IF CountIsInvalid(count)
       THEN /\ Raise(i, "Failed", "count")
            /\ UNCHANGED <<requested, in_flight, reports>>
       ELSE IF count > 0
       THEN /\ FirstRequest(i)
            /\ UNCHANGED <<state, reports, printed, main_pc, future, returned>>
       ELSE /\ ReturnList(i, << >>)
            /\ UNCHANGED <<requested, in_flight, printed>>
    /\ UNCHANGED <<reportVars, args, inputs, call, next_i, responses, queue,
                   collected, oracle>>

\* What attempt k of host index i may come back with: what it came back with
\* in the earlier call, or anything if this is the first time.
Answers(i, k) ==
    IF k <= Len(oracle[i]) THEN {oracle[i][k]} ELSE TransportOutcomes

\* Mutant of RequestReturn: a transport failure is not caught, it leaves
\* get_response_list and test_host as an exception.
RequestReturnPropagates(i) ==
    /\ call \in Calls
    /\ state[call][i] = "Probing"
    /\ InRequest(i)
    /\ LET k == Len(responses[i]) + 1
       IN  \E response \in Answers(i, k) :
             LET response_list_i == Append(responses[i], response)
             IN  /\ oracle' = [oracle EXCEPT ![i] =
                                  IF k <= Len(@) THEN @ ELSE Append(@, response)]
                 /\ IF response = None
                    THEN /\ Raise(i, "Failed", "transport")
                         /\ responses' = [responses EXCEPT ![i] = << >>]
                         /\ in_flight' = in_flight - 1
                         /\ UNCHANGED <<requested, reports>>
                    ELSE IF Len(response_list_i) >= count
                    THEN /\ ReturnList(i, response_list_i)
                         /\ responses' = [responses EXCEPT ![i] = << >>]
                         /\ in_flight' = in_flight - 1
                         /\ UNCHANGED <<requested, printed>>
                    ELSE /\ responses' = [responses EXCEPT ![i] = response_list_i]
                         /\ requested' = [requested EXCEPT ![call][i] = Append(@, hosts[i])]
                         /\ in_flight' = (in_flight - 1) + 1
                         /\ UNCHANGED <<state, reports, printed, main_pc, future, returned>>
    /\ UNCHANGED <<reportVars, args, inputs, call, next_i, queue, collected>>

\* Mutant of RequestReturn: the list comprehension runs over range(count + 1).
RequestReturnOneMore(i) ==
    /\ call \in Calls
    /\ state[call][i] = "Probing"
    /\ InRequest(i)
    /\ LET k == Len(responses[i]) + 1
       IN  \E response \in Answers(i, k) :
             LET response_list_i == Append(responses[i], response)
             IN  /\ oracle' = [oracle EXCEPT ![i] =
                                  IF k <= Len(@) THEN @ ELSE Append(@, response)]
                 /\ IF Len(response_list_i) >= count + 1
                    THEN /\ ReturnList(i, response_list_i)
                         /\ responses' = [responses EXCEPT ![i] = << >>]
                         /\ in_flight' = in_flight - 1
                         /\ UNCHANGED requested
                    ELSE /\ responses' = [responses EXCEPT ![i] = response_list_i]
                         /\ requested' = [requested EXCEPT ![call][i] = Append(@, hosts[i])]
                         /\ in_flight' = (in_flight - 1) + 1
                         /\ UNCHANGED <<state, reports, main_pc, future, returned>>
    /\ UNCHANGED <<reportVars, args, inputs, call, next_i, printed, queue, collected>>

\* requests.get returns a response or raises RequestException (get_response
\* then returns None).  Before the count-th attempt the list comprehension
\* enters requests.get again with the same url; after it the list is
\* complete and get_response_list returns it.
RequestReturn(i) ==
    /\ call \in Calls
    /\ state[call][i] = "Probing"
    /\ InRequest(i)
    /\ LET k == Len(responses[i]) + 1
       IN  \E response \in Answers(i, k) :
             LET response_list_i == Append(responses[i], response)
             IN  /\ oracle' = [oracle EXCEPT ![i] =
                                  IF k <= Len(@) THEN @ ELSE Append(@, response)]
                 /\ IF Len(response_list_i) >= count
                    THEN /\ ReturnList(i, response_list_i)
                         /\ responses' = [responses EXCEPT ![i] = << >>]
                         /\ in_flight' = in_flight - 1
                         /\ UNCHANGED requested
                    ELSE /\ responses' = [responses EXCEPT ![i] = response_list_i]
                         /\ requested' = [requested EXCEPT ![call][i] = Append(@, hosts[i])]
                         /\ in_flight' = (in_flight - 1) + 1
                         /\ UNCHANGED <<state, reports, main_pc, future, returned>>
    /\ UNCHANGED <<reportVars, args, inputs, call, next_i, printed, queue, collected>>

\* -- test_hosts (lines 128-135) ------------------------------------------

\* The for loop takes the next host and calls test_host.
SeqNextHost ==
    /\ call = "test_hosts" /\ main_pc = "loop"
    /\ next_i <= Len(hosts)
    /\ state' = [state EXCEPT ![call][next_i] = "Validating"]
    /\ main_pc' = "test_host"
    /\ next_i' = next_i + 1
    /\ UNCHANGED <<reportVars, args, inputs, call, responses, requested, in_flight,
                   reports, printed, queue, future, collected, oracle, returned>>

\* return reports, after the loop or after the except clause.  main goes on
\* to its output; the caller of Spec then calls test_hosts_parallel with the
\* same arguments.
SeqReturn ==
    /\ call = "test_hosts"
    /\ \/ main_pc = "loop" /\ next_i > Len(hosts)
       \/ main_pc = "caught"
    /\ IF args = NoArgs
       THEN call' = "test_hosts_parallel" /\ main_pc' = "submit"
       ELSE call' = "main" /\ main_pc' = "output"
    /\ next_i' = 1
    /\ UNCHANGED <<reportVars, args, inputs, state, responses, requested, in_flight,
                   reports, printed, queue, future, collected, oracle, returned>>

\* -- test_hosts_parallel (lines 140-155) ---------------------------------

\* executor.submit(self.test_host, host, timeout, count) for the next host.
ParSubmit ==
    /\ call = "test_hosts_parallel" /\ main_pc = "submit"
    /\ next_i <= Len(hosts)
    /\ queue' = Append(queue, next_i)
    /\ future' = [future EXCEPT ![next_i].st = "pending"]
    /\ next_i' = next_i + 1
    /\ UNCHANGED <<reportVars, args, inputs, call, main_pc, state, responses,
                   requested, in_flight, reports, printed, collected, oracle,
                   returned>>

\* All hosts are submitted: the dict is complete, as_completed starts.
ParAsCompleted ==
    /\ call = "test_hosts_parallel" /\ main_pc = "submit"
    /\ next_i > Len(hosts)
    /\ main_pc' = "collect"
    /\ UNCHANGED <<reportVars, args, inputs, call, next_i, state, responses,
                   requested, in_flight, reports, printed, queue, future,
                   collected, oracle, returned>>

\* Mutant of WorkerTake: the work item is not removed from the queue.
WorkerTakeKeepsItem ==
    /\ call = "test_hosts_parallel"
    /\ Cardinality(Running) < max_workers
    /\ queue # << >>
    /\ LET i == Head(queue)
       IN  /\ future' = [future EXCEPT ![i].st = "running"]
           /\ state' = [state EXCEPT ![call][i] = "Validating"]
    /\ UNCHANGED <<reportVars, args, inputs, call, main_pc, next_i, responses,
                   requested, in_flight, reports, printed, queue, collected,
                   oracle, returned>>

\* A worker thread that is not running a work item takes the oldest one and
\* starts test_host.
WorkerTake ==
    /\ call = "test_hosts_parallel"
    /\ Cardinality(Running) < max_workers
    /\ queue # << >>
    /\ LET i == Head(queue)
       IN  /\ future' = [future EXCEPT ![i].st = "running"]
           /\ state' = [state EXCEPT ![call][i] = "Validating"]
    /\ queue' = Tail(queue)
    /\ UNCHANGED <<reportVars, args, inputs, call, main_pc, next_i, responses,
                   requested, in_flight, reports, printed, collected, oracle,
                   returned>>

\* Mutant of ParCollect: the first exception ends the as_completed loop.
ParCollectStopsAtException(i) ==
    /\ call = "test_hosts_parallel" /\ main_pc = "collect"
    /\ i \in HostIndices \ collected
    /\ future[i].st = "finished"
    /\ IF future[i].exception = "none"
       THEN /\ reports' = [reports EXCEPT ![call] = Append(@, future[i].result)]
            /\ collected' = collected \cup {i}
            /\ UNCHANGED printed
       ELSE /\ printed' = [printed EXCEPT ![call] =
                              Append(@, [host |-> hosts[i], error |-> future[i].exception])]
            /\ collected' = HostIndices
            /\ UNCHANGED reports
    /\ UNCHANGED <<reportVars, args, inputs, call, main_pc, next_i, state, responses,
                   requested, in_flight, queue, future, oracle, returned>>

\* as_completed yields a finished future; future.result() returns the
\* report, which is appended, or raises, and the error is printed.
ParCollect(i) ==
    /\ call = "test_hosts_parallel" /\ main_pc = "collect"
    /\ i \in HostIndices \ collected
    /\ future[i].st = "finished"
    /\ collected' = collected \cup {i}
    /\ IF future[i].exception = "none"
       THEN /\ reports' = [reports EXCEPT ![call] = Append(@, future[i].result)]
            /\ UNCHANGED printed
       ELSE /\ printed' = [printed EXCEPT ![call] =
                              Append(@, [host |-> hosts[i], error |-> future[i].exception])]
            /\ UNCHANGED reports
    /\ UNCHANGED <<reportVars, args, inputs, call, main_pc, next_i, state, responses,
                   requested, in_flight, queue, future, oracle, returned>>

\* as_completed is exhausted, the with block shuts the executor down (no
\* work item is left) and reports is returned, to main or to the caller of
\* Spec.
ParReturn ==
    /\ call = "test_hosts_parallel" /\ main_pc = "collect"
    /\ collected = HostIndices
    /\ IF args = NoArgs
       THEN call' = "done" /\ main_pc' = "done"
       ELSE call' = "main" /\ main_pc' = "output"
    /\ UNCHANGED <<reportVars, args, inputs, next_i, state, responses, requested,
                   in_flight, reports, printed, queue, future, collected, oracle,
                   returned>>

Next ==
    \/ SeqNextHost
    \/ SeqReturn
    \/ ParSubmit
    \/ ParAsCompleted
    \/ WorkerTake
    \/ \E i \in HostIndices : Validate(i)
    \/ \E i \in HostIndices : GetResponseListStart(i)
    \/ \E i \in HostIndices : RequestReturn(i)
    \/ \E i \in HostIndices : ParCollect(i)
    \/ ParReturn

Spec == Init /\ [][Next]_vars

\* ------------------------------------------------------------------
\* ParSpec: test_hosts_parallel alone, with threads that are scheduled
\* fairly and a transport that answers every request
\* ------------------------------------------------------------------
ParInit ==
    /\ response_list = << >>
    /\ report = NoReport
    /\ args = NoArgs
    /\ hosts \in SeqsUpTo(HostPool, MaxHosts)
    /\ count \in 0 .. MaxCount
    /\ Len(hosts) * count <= MaxCalls
    /\ thread_count \in 1 .. MaxThreads
    /\ call = "test_hosts_parallel"
    /\ main_pc = "submit"
    /\ next_i = 1
    /\ Fresh(hosts)
    /\ in_flight = 0
    /\ reports = [m \in Modes |-> << >>]
    /\ printed = [m \in Modes |-> << >>]
    /\ queue = << >>
    /\ collected = {}
    /\ returned = NotReturned

\* A step of the thread that calls test_hosts_parallel.
CallerStep ==
    \/ ParSubmit
    \/ ParAsCompleted
    \/ \E i \in HostIndices : ParCollect(i)
    \/ ParReturn

\* A step of the worker thread that runs test_host for host index i, other
\* than the return of requests.get.
WorkerStep(i) ==
    /\ i \in HostIndices
    /\ (Validate(i) \/ GetResponseListStart(i))

\* requests.get of host index i returns, at the latest at its timeout.
TransportStep(i) ==
    /\ i \in HostIndices
    /\ RequestReturn(i)

ParNext ==
    \/ CallerStep
    \/ WorkerTake
    \/ \E i \in 1 .. MaxHosts : WorkerStep(i)
    \/ \E i \in 1 .. MaxHosts : TransportStep(i)

Fairness ==
    /\ WF_vars(CallerStep)
    /\ WF_vars(WorkerTake)
    /\ \A i \in 1 .. MaxHosts : WF_vars(WorkerStep(i))
    /\ \A i \in 1 .. MaxHosts : WF_vars(TransportStep(i))

ParSpec == ParInit /\ [][ParNext]_vars /\ Fairness

\* ------------------------------------------------------------------
\* DirectSpec: validate_url and get_response_list called directly, with any
\* candidate string and any count
\* ------------------------------------------------------------------
\* The candidate strings: a prefix, a host part, a tld part and a rest.
Prefixes ==
    {<< >>,
     <<"h", "t", "t", "p", ":", "/", "/">>,
     <<"h", "t", "t", "p", "s", ":", "/", "/">>,
     <<"f", "t", "p", ":", "/", "/">>,
     <<" ", "h", "t", "t", "p", ":", "/", "/">>,
     <<"h", "t", "t", "p", ":", "/">>}

HostParts == {<< >>, <<"a">>, <<"a", "-", "1">>, <<"a", " ", "b">>, <<"a", "_">>}

TldParts == {<< >>, <<".", "i", "o">>, <<".", "i">>, <<".", "i", "1">>}

Rests ==
    {<< >>, <<"/", "x">>, <<"/">>, <<"?", "q">>, <<"/", " ", "x">>, <<" ">>,
     <<"\t">>, <<"\n">>, <<"\n", "\n">>, <<"/", "x", "\n">>, <<"/", "x", "\r">>}

Candidates ==
    {p \o h \o t \o r : p \in Prefixes, h \in HostParts, t \in TldParts, r \in Rests}

MinCount == 0 - 1

DirectInit ==
    /\ response_list = << >>
    /\ report = NoReport
    /\ args = NoArgs
    /\ call \in {"validate_url", "get_response_list"}
    /\ \E url \in Candidates : hosts = <<url>>
    /\ count \in IF call = "get_response_list" THEN MinCount .. MaxCount ELSE {1}
    /\ thread_count = 1
    /\ main_pc = "call"
    /\ next_i = 1
    /\ state = [PerCall(hosts, "Pending") EXCEPT !["get_response_list"][1] =
                   IF call = "get_response_list" THEN "Probing" ELSE @]
    /\ responses = PerHost(hosts, << >>)
    /\ requested = PerCall(hosts, << >>)
    /\ future = PerHost(hosts, NoFuture)
    /\ oracle = PerHost(hosts, << >>)
    /\ in_flight = 0
    /\ reports = [m \in Modes |-> << >>]
    /\ printed = [m \in Modes |-> << >>]
    /\ queue = << >>
    /\ collected = {}
    /\ returned = NotReturned

\* validate_url(url) is called and returns.
ValidateUrlReturn ==
    /\ call = "validate_url" /\ main_pc = "call"
    /\ returned' = [kind |-> "returned", value |-> validate_url(hosts[1])]
    /\ main_pc' = "done"
    /\ UNCHANGED <<reportVars, args, inputs, call, next_i, state, responses,
                   requested, in_flight, reports, printed, queue, future,
                   collected, oracle>>

DirectNext ==
    \/ ValidateUrlReturn
    \/ \E i \in HostIndices : GetResponseListStart(i)
    \/ \E i \in HostIndices : RequestReturn(i)

DirectSpec == DirectInit /\ [][DirectNext]_vars

\* ------------------------------------------------------------------
\* MainSpec: main() from the parsed command line to the exit code
\* ------------------------------------------------------------------
\* str.strip(): leading and trailing whitespace removed.
RECURSIVE LStrip(_)
LStrip(s) == IF s # << >> /\ Head(s) \in Whitespace THEN LStrip(Tail(s)) ELSE s

RECURSIVE RStrip(_)
RStrip(s) ==
    IF s # << >> /\ s[Len(s)] \in Whitespace THEN RStrip(SubSeq(s, 1, Len(s) - 1)) ELSE s

Strip(s) == LStrip(RStrip(s))

\* The positions of the character c in s.
Positions(s, c) == {k \in 1 .. Len(s) : s[k] = c}
First(s, c) == CHOOSE k \in Positions(s, c) : \A j \in Positions(s, c) : k <= j

\* str.split(sep): the pieces between the separators, at least one piece.
RECURSIVE Split(_, _)
Split(s, sep) ==
    IF Positions(s, sep) = {} THEN <<s>>
    ELSE LET k == First(s, sep)
         IN  <<SubSeq(s, 1, k - 1)>> \o Split(SubSeq(s, k + 1, Len(s)), sep)

\* for line in input_file: the lines of the text, each with its newline.
RECURSIVE Lines(_)
Lines(s) ==
    IF s = << >> THEN << >>
    ELSE IF Positions(s, "\n") = {} THEN <<s>>
    ELSE LET k == First(s, "\n")
         IN  <<SubSeq(s, 1, k)>> \o Lines(SubSeq(s, k + 1, Len(s)))

StripAll(ss) == [k \in 1 .. Len(ss) |-> Strip(ss[k])]

NonEmpty(s) == Len(s) > 0

\* An option that was not given (None), a string option, a file option whose
\* file cannot be opened.
Absent == [given |-> FALSE, readable |-> FALSE, text |-> << >>]
Given(t) == [given |-> TRUE, readable |-> TRUE, text |-> t]
Unreadable == [given |-> TRUE, readable |-> FALSE, text |-> << >>]

\* read_hosts_from_file: the stripped non-empty lines; [] when open raises
\* (no such file, or filepath is None).
read_hosts_from_file(file) ==
    IF file.given /\ file.readable
    THEN SelectSeq(StripAll(Lines(file.text)), NonEmpty)
    ELSE << >>

\* hosts as main computes it (lines 202-205).
ResolveHosts(a) ==
    IF a.hosts.given /\ a.hosts.text # << >>
    THEN StripAll(Split(a.hosts.text, ","))
    ELSE read_hosts_from_file(a.file)

\* The entries the inline lists and the files are written from:
\* "http://a.io", " https://b.io/x ", "" and " ".
EntryPool == {HostA, <<" ">> \o HostB \o <<" ">>, << >>, <<" ">>}

MaxEntries == 2

RECURSIVE Join(_, _)
Join(es, sep) ==
    IF es = << >> THEN << >>
    ELSE IF Len(es) = 1 THEN es[1]
    ELSE es[1] \o <<sep>> \o Join(Tail(es), sep)

InlineTexts == {Join(es, ",") : es \in SeqsUpTo(EntryPool, MaxEntries)}
FileTexts == {Join(es, "\n") \o end : es \in SeqsUpTo(EntryPool, MaxEntries),
                                      end \in {<< >>, <<"\n">>}}

\* -H and -F are mutually exclusive.
Sources ==
    {<<Given(t), Absent>> : t \in InlineTexts}
      \cup {<<Absent, Given(t)>> : t \in FileTexts}
      \cup {<<Absent, Unreadable>>, <<Absent, Absent>>}

MainArgs ==
    {[count |-> c, parallel |-> p, hosts |-> s[1], file |-> s[2]] :
        c \in 0 .. MaxCount, p \in 0 .. MaxThreads, s \in Sources}

MainInit ==
    /\ response_list = << >>
    /\ report = NoReport
    /\ args \in MainArgs
    /\ Len(ResolveHosts(args)) * args.count <= MaxCalls
    /\ hosts = << >>
    /\ count = args.count
    /\ thread_count = args.parallel
    /\ call = "main"
    /\ main_pc = "count"
    /\ next_i = 1
    /\ Fresh(hosts)
    /\ in_flight = 0
    /\ reports = [m \in Modes |-> << >>]
    /\ printed = [m \in Modes |-> << >>]
    /\ queue = << >>
    /\ collected = {}
    /\ returned = NotReturned

\* sys.exit(code), or main returns (code 0).
Exit(code) ==
    /\ returned' = [kind |-> "exit", value |-> code]
    /\ main_pc' = "done"

\* if args.count < 1: exit(1)
MainCountCheck ==
    /\ call = "main" /\ main_pc = "count"
    /\ IF args.count < 1 THEN Exit(1) ELSE main_pc' = "hosts" /\ UNCHANGED returned
    /\ UNCHANGED <<reportVars, args, inputs, call, next_i, state, responses,
                   requested, in_flight, reports, printed, queue, future,
                   collected, oracle>>

\* hosts is computed from -H or from the file.
MainHosts ==
    /\ call = "main" /\ main_pc = "hosts"
    /\ hosts' = ResolveHosts(args)
    /\ state' = PerCall(hosts', "Pending")
    /\ responses' = PerHost(hosts', << >>)
    /\ requested' = PerCall(hosts', << >>)
    /\ future' = PerHost(hosts', NoFuture)
    /\ oracle' = PerHost(hosts', << >>)
    /\ main_pc' = "len"
    /\ UNCHANGED <<reportVars, args, count, thread_count, call, next_i, in_flight,
                   reports, printed, queue, collected, returned>>

\* if len(hosts) == 0: exit(1)
MainHostsCheck ==
    /\ call = "main" /\ main_pc = "len"
    /\ IF Len(hosts) = 0 THEN Exit(1) ELSE main_pc' = "dispatch" /\ UNCHANGED returned
    /\ UNCHANGED <<reportVars, args, inputs, call, next_i, state, responses,
                   requested, in_flight, reports, printed, queue, future,
                   collected, oracle>>

\* test_hosts_parallel is called if args.parallel > 1, test_hosts otherwise.
MainDispatch ==
    /\ call = "main" /\ main_pc = "dispatch"
    /\ IF args.parallel > 1
       THEN call' = "test_hosts_parallel" /\ main_pc' = "submit"
       ELSE call' = "test_hosts" /\ main_pc' = "loop"
    /\ UNCHANGED <<reportVars, args, inputs, next_i, state, responses, requested,
                   in_flight, reports, printed, queue, future, collected, oracle,
                   returned>>

\* The reports are written or printed and main returns.
MainOutput ==
    /\ call = "main" /\ main_pc = "output"
    /\ Exit(0)
    /\ UNCHANGED <<reportVars, args, inputs, call, next_i, state, responses,
                   requested, in_flight, reports, printed, queue, future,
                   collected, oracle>>

\* Past its own count check main calls with count >= 1, so the count check
\* of get_response_list passes within Validate and never raises.
MainNext ==
    \/ MainCountCheck
    \/ MainHosts
    \/ MainHostsCheck
    \/ MainDispatch
    \/ MainOutput
    \/ SeqNextHost
    \/ SeqReturn
    \/ ParSubmit
    \/ ParAsCompleted
    \/ WorkerTake
    \/ \E i \in HostIndices : Validate(i)
    \/ \E i \in HostIndices : RequestReturn(i)
    \/ \E i \in HostIndices : ParCollect(i)
    \/ ParReturn

MainSpec == MainInit /\ [][MainNext]_vars

\* ------------------------------------------------------------------
\* Claims about HostTestReport
\* ------------------------------------------------------------------
Indices(P(_)) == {i \in 1..Len(response_list) : P(response_list[i])}

IsNone(r) == r = None
IsSuccess(r) == r # None /\ r.status_code = 200
IsFailed(r) == r # None /\ 400 <= r.status_code /\ r.status_code < 600
IsOther(r) == r # None /\ ~IsSuccess(r) /\ ~IsFailed(r)

SetMin(S) == CHOOSE x \in S : \A y \in S : x <= y
SetMax(S) == CHOOSE x \in S : \A y \in S : x >= y

\* C1: in every constructed report success + failed + errors equals the
\* length of the response list, whatever it contains (None entries and the
\* empty list included).
C1_CountersSumToLength ==
    report # NoReport =>
        report.success + report.failed + report.errors = Len(response_list)

C1_Witness ==
    /\ report # NoReport
    /\ Len(response_list) = MaxResponses
    /\ Indices(IsNone) # {}
    /\ Indices(IsOther) # {}
    /\ report.success > 0

\* C2: each response is classified on its own: success counts the responses
\* with status 200, failed those with 400 <= status < 600, errors the None
\* entries plus the responses with any other status.
C2_Classification ==
    report # NoReport =>
        /\ report.success = Cardinality(Indices(IsSuccess))
        /\ report.failed = Cardinality(Indices(IsFailed))
        /\ report.errors = Cardinality(Indices(IsNone)) + Cardinality(Indices(IsOther))

C2_Witness ==
    /\ report # NoReport
    /\ \E i, j, k \in 1..Len(response_list) :
         /\ response_list[i] # None /\ response_list[i].status_code = 400
         /\ response_list[j] # None /\ response_list[j].status_code = 600
         /\ response_list[k] # None /\ response_list[k].status_code = 200
    /\ report.success = 1 /\ report.failed = 1 /\ report.errors = 1

\* The elapsed times of the status-200 responses, in list order.
SuccessSamples ==
    LET ok == SelectSeq(response_list, IsSuccess)
    IN  [i \in 1..Len(ok) |-> ok[i].elapsed_ms]

SampleSet == {SuccessSamples[i] : i \in 1..Len(SuccessSamples)}

C4_ZeroWithoutSuccess ==
    report # NoReport =>
        /\ report.min # Inf
        /\ report.success = 0 => report.min = 0 /\ report.max = 0 /\ report.avg = 0

C4_Witness ==
    /\ report # NoReport
    /\ report.success = 0
    /\ \E i \in 1..Len(response_list) :
         response_list[i] # None /\ response_list[i].elapsed_ms > 0

\* C5: in every report with success > 0, min <= avg <= max.
C5_MinAvgMax ==
    report # NoReport /\ report.success > 0 =>
        report.min <= report.avg /\ report.avg <= report.max

\* ------------------------------------------------------------------
\* Claims about test_hosts and test_hosts_parallel
\* ------------------------------------------------------------------
\* test_host(hosts[i]) returns a report: the URL is valid and count > 0.
Succeeds(i) == validate_url(hosts[i]) /\ count > 0

ReportsFor(m, h) == {k \in 1 .. Len(reports[m]) : reports[m][k].host = h}
PrintedFor(m, h) == {k \in 1 .. Len(printed[m]) : printed[m][k].host = h}

\* C6: while test_hosts_parallel runs with thread_count = N, at most N
\* requests.get calls are in flight and at most N hosts are being run; a host
\* that was taken from the queue is never queued again.
C6_AtMostNInFlight ==
    call = "test_hosts_parallel" =>
        /\ in_flight <= thread_count
        /\ Cardinality(Running) <= thread_count
        /\ \A k \in 1 .. Len(queue) : state[call][queue[k]] = "Pending"

C6_Witness ==
    /\ call = "test_hosts_parallel"
    /\ thread_count = 2
    /\ in_flight = 2
    /\ queue # << >>

\* C7: when test_hosts_parallel has returned, every host that passes
\* validation (count > 0) has exactly one report in the returned list and no
\* error line, every other host has one error line and no report, whatever
\* the other hosts of the list did and in whatever order.
C7_ParallelIsolation ==
    call = "done" =>
        /\ \A h \in HostPool :
             /\ Cardinality(ReportsFor("test_hosts_parallel", h))
                  = Cardinality({i \in HostIndices : hosts[i] = h /\ Succeeds(i)})
             /\ Cardinality(PrintedFor("test_hosts_parallel", h))
                  = Cardinality({i \in HostIndices : hosts[i] = h /\ ~Succeeds(i)})
        /\ \A i \in HostIndices :
             state["test_hosts_parallel"][i] =
                 IF Succeeds(i) THEN "Aggregated"
                 ELSE IF validate_url(hosts[i]) THEN "Failed" ELSE "Rejected"

C7_Witness ==
    /\ call = "done"
    /\ \E i, j, k \in HostIndices :
         /\ i < j /\ j < k
         /\ state["test_hosts_parallel"][i] = "Aggregated"
         /\ state["test_hosts_parallel"][j] = "Rejected"
         /\ state["test_hosts_parallel"][k] = "Aggregated"
    /\ Len(reports["test_hosts_parallel"]) = 2
    /\ Len(printed["test_hosts_parallel"]) = 1

\* C8: when test_hosts has returned, every host of the list was processed:
\* an invalid host is rejected with an error line and every valid host, also
\* one that comes after an invalid host, has its report.
C8_SequentialSkipsInvalidHost ==
    call \in {"test_hosts_parallel", "done"} /\ count > 0 =>
        /\ \A i \in HostIndices :
             state["test_hosts"][i] =
                 IF validate_url(hosts[i]) THEN "Aggregated" ELSE "Rejected"
        /\ Len(reports["test_hosts"])
             = Cardinality({i \in HostIndices : validate_url(hosts[i])})
        /\ Len(printed["test_hosts"])
             = Cardinality({i \in HostIndices : ~validate_url(hosts[i])})

\* The counters of a report, with the host they are for.
Counters(r) ==
    [host |-> r.host, success |-> r.success, failed |-> r.failed, errors |-> r.errors]

RECURSIVE BagOfCounters(_)
BagOfCounters(rs) ==
    IF rs = << >> THEN EmptyBag
    ELSE BagOfCounters(Tail(rs)) (+) SetToBag({Counters(Head(rs))})

\* C9: for the same hosts, count and transport answers, test_hosts_parallel
\* returns reports for the same multiset of hosts, with the same counters,
\* as test_hosts.
C9_SameReportsInBothModes ==
    call = "done" =>
        BagOfCounters(reports["test_hosts_parallel"]) = BagOfCounters(reports["test_hosts"])

\* The hosts that reached Aggregated in call m, in input order.
RECURSIVE AggregatedHosts(_, _)
AggregatedHosts(m, n) ==
    IF n = 0 THEN << >>
    ELSE IF state[m][n] = "Aggregated"
         THEN Append(AggregatedHosts(m, n - 1), hosts[n])
         ELSE AggregatedHosts(m, n - 1)

\* C10: the reports of test_hosts are those of the hosts that succeeded, in
\* input order and under the input string (so their hosts are a subsequence
\* of the host list), and the host test_hosts is validating or probing is
\* the earliest host that is not in a terminal state.
C10_SequentialInputOrder ==
    /\ [k \in 1 .. Len(reports["test_hosts"]) |-> reports["test_hosts"][k].host]
         = AggregatedHosts("test_hosts", Len(hosts))
    /\ \A i \in HostIndices :
         state["test_hosts"][i] \in {"Validating", "Probing"} =>
             \A j \in 1 .. i - 1 : state["test_hosts"][j] \in Terminal

C10_Witness ==
    /\ call = "test_hosts"
    /\ Len(reports["test_hosts"]) = 2
    /\ reports["test_hosts"][1].host # reports["test_hosts"][2].host
    /\ \E i \in HostIndices : state["test_hosts"][i] = "Probing"


\* ------------------------------------------------------------------
\* Claims about test_host in both modes
\* ------------------------------------------------------------------
\* The steps of the per-host state machine.
Transitions ==
    {<<"Pending", "Validating">>, <<"Validating", "Rejected">>,
     <<"Validating", "Probing">>, <<"Probing", "Aggregated">>,
     <<"Probing", "Failed">>}

HostsIn(m, h, sts) == {i \in HostIndices : hosts[i] = h /\ state[m][i] \in sts}

\* What each host has contributed to the result of call m: while test_hosts
\* runs, and when test_hosts_parallel has collected a host's future, a host
\* has a report iff it is Aggregated and an error line iff it is Rejected or
\* Failed; a host that is in no terminal state has contributed nothing.
Contributions ==
    /\ \A h \in HostPool :
         /\ Cardinality(ReportsFor("test_hosts", h))
              = Cardinality(HostsIn("test_hosts", h, {"Aggregated"}))
         /\ Cardinality(PrintedFor("test_hosts", h))
              = Cardinality(HostsIn("test_hosts", h, {"Rejected", "Failed"}))
         /\ Cardinality(ReportsFor("test_hosts_parallel", h))
              = Cardinality(HostsIn("test_hosts_parallel", h, {"Aggregated"}) \cap collected)
         /\ Cardinality(PrintedFor("test_hosts_parallel", h))
              = Cardinality(HostsIn("test_hosts_parallel", h, {"Rejected", "Failed"})
                              \cap collected)
    /\ call = "done" => collected = HostIndices
    /\ collected \subseteq {i \in HostIndices : state["test_hosts_parallel"][i] \in Terminal}

\* Every host that changes state takes a step of the state machine.
HostSteps ==
    \A m \in Modes : \A i \in HostIndices :
        state'[m][i] # state[m][i] => <<state[m][i], state'[m][i]>> \in Transitions

\* C11: in test_hosts and in test_hosts_parallel a host changes state only
\* along Pending -> Validating -> (Rejected | Probing) -> (Aggregated |
\* Failed), so a terminal state is never left; the reports of a call are
\* those of its Aggregated hosts and its error lines those of its Rejected and
\* Failed hosts.
C11_HostStateMachine == [][HostSteps /\ Contributions']_vars

C11_Witness ==
    /\ call = "done"
    /\ \E i, j, k \in HostIndices :
         /\ state["test_hosts"][i] = "Aggregated"
         /\ state["test_hosts"][j] = "Rejected"
         /\ state["test_hosts"][k] = "Pending"
         /\ state["test_hosts_parallel"][j] = "Rejected"
         /\ state["test_hosts_parallel"][k] = "Aggregated"

\* The transport failures among the answers host index i got.
TransportFailures(i) == {k \in 1 .. Len(oracle[i]) : oracle[i][k] = None}

\* C12: a transport failure never becomes an exception: no host is Failed
\* for another reason than the count check and no error line is about the
\* transport; an Aggregated host made all count attempts, and its report
\* counts exactly the attempts that failed at transport level as errors.
C12_TransportFailureIsAnOutcome ==
    \A m \in Modes :
        /\ \A i \in HostIndices :
             /\ state[m][i] = "Failed" => count <= 0
             /\ state[m][i] = "Aggregated" => Len(requested[m][i]) = count
        /\ \A k \in 1 .. Len(printed[m]) : printed[m][k].error \in {"invalid url", "count"}
        /\ \A k \in 1 .. Len(reports[m]) :
             LET r == reports[m][k]
             IN  /\ r.success + r.failed + r.errors = count
                 /\ \E i \in HostIndices :
                      /\ hosts[i] = r.host
                      /\ state[m][i] = "Aggregated"
                      /\ r.errors = Cardinality(TransportFailures(i))

C12_Witness ==
    /\ count = 2
    /\ \E k \in 1 .. Len(reports["test_hosts_parallel"]) :
         reports["test_hosts_parallel"][k].errors = 2
    /\ \E k \in 1 .. Len(reports["test_hosts"]) :
         /\ reports["test_hosts"][k].errors = 1
         /\ reports["test_hosts"][k].success = 1

\* The host strings of the pool that pass validate_url.
ValidHosts == {h \in HostPool : validate_url(h)}

\* C18: requests.get is called only with a host string that passes
\* validate_url, and only for a host whose validation is over and succeeded:
\* a Pending, Validating or Rejected host has no transport call.
C18_ValidationBeforeProbing ==
    \A m \in Modes : \A i \in HostIndices :
        /\ \A k \in 1 .. Len(requested[m][i]) : requested[m][i][k] \in ValidHosts
        /\ requested[m][i] # << >> =>
             /\ hosts[i] \in ValidHosts
             /\ state[m][i] \in {"Probing", "Aggregated"}

C18_Witness ==
    /\ call = "test_hosts_parallel"
    /\ \E i, j \in HostIndices :
         /\ state[call][i] = "Rejected"
         /\ state[call][j] = "Validating"
    /\ \E i \in HostIndices : state[call][i] = "Probing" /\ InRequest(i)


\* ------------------------------------------------------------------
\* Claims about get_response_list and validate_url called directly
\* ------------------------------------------------------------------
IsPrefix(s, t) == Len(s) <= Len(t) /\ SubSeq(t, 1, Len(s)) = s

\* C13: get_response_list(url, count) with count > 0 passes url, and nothing
\* else, to requests.get, never more than count times and never a second
\* time before the first has returned; it does not raise, and when it returns
\* it has made exactly count calls and the list it returns holds, in the
\* order of the attempts, what the transport answered.
C13_CountAttemptsInOrder ==
    call = "get_response_list" /\ count > 0 =>
        /\ \A k \in 1 .. Len(requested[call][1]) : requested[call][1][k] = hosts[1]
        /\ Len(requested[call][1]) <= count
        /\ Len(oracle[1]) <= Len(requested[call][1])
        /\ Len(requested[call][1]) <= Len(oracle[1]) + 1
        /\ in_flight = Len(requested[call][1]) - Len(oracle[1])
        /\ IsPrefix(responses[1], oracle[1])
        /\ returned.kind # "raised"
        /\ returned.kind = "returned" =>
             /\ Len(requested[call][1]) = count
             /\ Len(returned.value) = count
             /\ returned.value = oracle[1]

C13_Witness ==
    /\ call = "get_response_list" /\ count = 2
    /\ returned.kind = "returned"
    /\ requested[call][1] = <<hosts[1], hosts[1]>>
    /\ returned.value = <<None, Response(200, 3)>>

\* C14: get_response_list(url, count) with count <= 0 never calls
\* requests.get and never returns a list, whatever url is; it ends by raising
\* the count error.
C14_NonPositiveCountRaises ==
    call = "get_response_list" /\ count <= 0 =>
        /\ requested[call][1] = << >>
        /\ in_flight = 0
        /\ oracle[1] = << >>
        /\ returned.kind # "returned"
        /\ main_pc = "done" => returned = [kind |-> "raised", value |-> "count"]
        /\ main_pc # "done" => ENABLED GetResponseListStart(1)

C14_Witness ==
    /\ call = "get_response_list" /\ count = 0
    /\ ~validate_url(hosts[1])
    /\ returned = [kind |-> "raised", value |-> "count"]

HasScheme(url) ==
    \/ StartsWith(url, <<"h", "t", "t", "p", ":", "/", "/">>)
    \/ StartsWith(url, <<"h", "t", "t", "p", "s", ":", "/", "/">>)

HasWhitespace(url) == \E k \in 1 .. Len(url) : url[k] \in Whitespace

\* C17: validate_url returns True only for a string that starts with
\* http:// or https:// and holds no whitespace character at any position,
\* a trailing newline included.
C17_RejectsSchemelessAndWhitespace ==
    call = "validate_url" /\ returned.kind = "returned" /\ returned.value =>
        HasScheme(hosts[1]) /\ ~HasWhitespace(hosts[1])


\* ------------------------------------------------------------------
\* Claims about the termination of test_hosts_parallel
\* ------------------------------------------------------------------
AllTerminal == \A i \in HostIndices : state["test_hosts_parallel"][i] \in Terminal

\* While host index i is Probing, the other workers are not held up: a host
\* another worker runs can take its next step, and with a free worker and a
\* queued host the free worker can take that host.
NotBlockedBy(i) ==
    /\ \A j \in HostIndices \ {i} :
         state[call][j] \in {"Validating", "Probing"} =>
             ENABLED (WorkerStep(j) \/ TransportStep(j))
    /\ thread_count >= 2 /\ Running = {i} /\ queue # << >> => ENABLED WorkerTake

\* C19: with fair threads and a transport that answers, test_hosts_parallel
\* returns, and when it has returned every host is Aggregated, Rejected or
\* Failed; a host that is Probing never disables the steps of the other
\* workers.
C19_ParallelTerminates ==
    /\ <>(call = "done")
    /\ [](call = "done" => AllTerminal)
    /\ [](call = "test_hosts_parallel" =>
            \A i \in HostIndices : state[call][i] = "Probing" => NotBlockedBy(i))

C19_Witness ==
    /\ call = "test_hosts_parallel"
    /\ thread_count = 2
    /\ queue # << >>
    /\ \E i, j \in HostIndices :
         /\ state[call][i] = "Probing" /\ InRequest(i)
         /\ state[call][j] = "Validating"


\* ------------------------------------------------------------------
\* Claims about main
\* ------------------------------------------------------------------
\* The entries of the host source the command line names: the pieces of
\* the comma-separated argument, or the lines of the file.
SourceEntries(a) ==
    IF a.hosts.given THEN Split(a.hosts.text, ",")
    ELSE IF a.file.given /\ a.file.readable THEN Lines(a.file.text)
    ELSE << >>

\* The host source: the entries, trimmed, blank ones dropped, in order.
HostSource(a) == SelectSeq(StripAll(SourceEntries(a)), NonEmpty)

NoHostTouched ==
    \A m \in Modes : \A i \in HostIndices :
        state[m][i] = "Pending" /\ requested[m][i] = << >>

\* C15: when count < 1 or the host source holds no host, main never leaves
\* for test_hosts or test_hosts_parallel, no host is validated or probed,
\* and main ends with exit code 1; otherwise test_hosts_parallel is called
\* only with a worker count above 1 and test_hosts only with one of at most 1.
C15_ExitOneOrDispatch ==
    IF args.count < 1 \/ HostSource(args) = << >>
    THEN /\ call = "main"
         /\ NoHostTouched
         /\ main_pc = "done" => returned = [kind |-> "exit", value |-> 1]
    ELSE /\ call = "test_hosts_parallel" => args.parallel > 1
         /\ call = "test_hosts" => args.parallel <= 1
         /\ main_pc = "done" => returned = [kind |-> "exit", value |-> 0]

\* C16: the host list test_hosts or test_hosts_parallel is called with is
\* the host source: every entry trimmed, no entry empty, in source order,
\* for the comma-separated argument and for the file.
C16_HostListIsHostSource ==
    call \in Modes =>
        /\ hosts = HostSource(args)
        /\ \A i \in HostIndices : hosts[i] # << >> /\ Strip(hosts[i]) = hosts[i]

====
